---- MODULE Spec2Model ----
(***************************************************************************)
(* Model of the attendance synchronisation service: SyncService            *)
(* (src/services/syncService.js) with its two adapters, AttendanceService  *)
(* (src/services/attendanceService.js) and GoogleSheetsService             *)
(* (src/services/googleSheetsService.js), as started by src/server.js.     *)
(*                                                                         *)
(* Node runs the handlers on one thread: a handler runs without            *)
(* interruption up to its next network call (axios.get, sheets.values.get, *)
(* sheets.values.append) and is resumed by the answer.  Each action below  *)
(* is one such uninterrupted run; an in-flight call of an async method is  *)
(* one entry of `calls`.                                                   *)
(***************************************************************************)
EXTENDS Integers, Sequences, FiniteSets, Bags, TLC

\* ------------------------------------------------------------------ bounds
MaxTime == 2        \* the clock takes MaxTime values, LookBack+1 .. LookBack+MaxTime
MaxRows == 2        \* data rows the sheet may hold before appends are cut off
MaxBatch == 2       \* records in an array handed straight to appendAttendanceData
MaxAttempts == 3    \* sync invocations in the specifications that keep their windows

\* --------------------------------------------------------------- constants
\* 24 * 60 * 60 * 1000 ms, in clock units of 12 hours
LookBack == 2

Undefined == "undefined"    \* a property the JavaScript object does not have
NoTime == 0                 \* lastSyncTime = null
NoResult == [success |-> FALSE, message |-> "null", error |-> Undefined,
             recordsAdded |-> -1]

\* the async invocations that may be in flight together: two are what the
\* overlaps of two syncs, or of a sync and a query, take
Slots == {"first", "second"}

\* ------------------------------------------------------------ raw records
Rec(uid, ty, dev, per) ==
    [uid |-> uid, sync_time |-> "s", logged_time |-> "l", type |-> ty,
     device_identifier |-> dev, person_identifier |-> per,
     rfid |-> Undefined, location |-> Undefined,
     primary_display_text |-> Undefined, secondary_display_text |-> Undefined]

rA == Rec("a", "card", "d", "p")
rB == [Rec("b", "face", "d", "p") EXCEPT !.rfid = "r1"]
rNoPerson == Rec("x", "fingerprint", "d", Undefined)
rEmptyDevice == Rec("y", "face", "", "p")
rBadType == Rec("z", "pin", "d", "p")
rNoUid == Rec(Undefined, "card", "d", "p")
rNoSyncTime == [Rec("v", "card", "d", "p") EXCEPT !.sync_time = ""]
rNoLoggedTime == [Rec("w", "card", "d", "p") EXCEPT !.logged_time = Undefined]
rNoType == Rec("u", Undefined, "d", "p")

\* the `data` arrays the upstream API may answer with
Batches ==
    { <<>>, <<rA, rB>>, <<rA, rA>>,
      <<rNoPerson, rA, rEmptyDevice>>, <<rNoSyncTime, rA, rNoLoggedTime>>,
      <<rBadType, rNoUid, rNoType>> }

TheProject == [code |-> "P1", name |-> "Proj", organization |-> "Org"]

\* ---------------------------------------------------- AttendanceService
Falsy(v) == v = Undefined \/ v = ""

RequiredFields ==
    {"uid", "sync_time", "logged_time", "type", "device_identifier",
     "person_identifier"}

AttendanceTypes == {"card", "fingerprint", "face"}

\* validateAttendanceRecord without person_identifier among its required fields
ValidateWithoutPerson(record) ==
    /\ \A field \in RequiredFields \ {"person_identifier"} : ~Falsy(record[field])
    /\ record.type \in AttendanceTypes

\* validateAttendanceRecord(record)
ValidateAttendanceRecord(record) ==
    /\ \A field \in RequiredFields : ~Falsy(record[field])
    /\ record.type \in AttendanceTypes

OrEmpty(v) == IF Falsy(v) THEN "" ELSE v

\* the object processAttendanceRecords maps a valid record to
Normalized(record, project) ==
    [uid |-> record.uid, sync_time |-> record.sync_time,
     logged_time |-> record.logged_time, type |-> record.type,
     device_identifier |-> record.device_identifier,
     person_identifier |-> record.person_identifier,
     rfid |-> OrEmpty(record.rfid), location |-> OrEmpty(record.location),
     primary_display_text |-> OrEmpty(record.primary_display_text),
     secondary_display_text |-> OrEmpty(record.secondary_display_text),
     project |-> project]

\* processAttendanceRecords(records, project)
ProcessAttendanceRecords(records, project) ==
    LET valid == SelectSeq(records, ValidateAttendanceRecord)
    IN  [i \in 1..Len(valid) |-> Normalized(valid[i], project)]

\* the ends of axios.get the model draws from (an HTTP error status and a
\* request that could not be set up end like "noresponse", with another message)
FetchOutcomes == {"ok", "nodata", "timeout", "noresponse"}

\* the ends of axios.get: an answer carrying one of the batches, or a failure
Responses ==
    {[outcome |-> "ok", batch |-> b] : b \in Batches}
        \cup {[outcome |-> o, batch |-> <<>>] : o \in FetchOutcomes \ {"ok"}}

TimeoutMessage == "Request timeout - TIPSOI API took too long to respond"

\* the message of the Error getAttendanceData throws from its catch block
FetchErrorMessage(outcome) ==
    CASE outcome = "timeout" -> TimeoutMessage
      [] outcome = "httperror" -> "TIPSOI API error (status): message"
      [] outcome = "noresponse" -> "No response from TIPSOI API - network error"
      [] outcome = "non200" -> "Request setup error: API request failed with status"
      [] OTHER -> "Request setup error"

\* getAttendanceData(startTime, endTime) once axios.get has ended with `outcome`
\* and, when it answered, with `batch` as the data field of the body
GetAttendanceData(outcome, batch) ==
    CASE outcome = "ok" ->
            [ok |-> TRUE, records |-> batch, project |-> TheProject,
             message |-> "", name |-> ""]
      [] outcome = "nodata" ->
            [ok |-> TRUE, records |-> <<>>, project |-> TheProject,
             message |-> "", name |-> ""]
      [] OTHER ->
            [ok |-> FALSE, records |-> <<>>, project |-> TheProject,
             message |-> FetchErrorMessage(outcome), name |-> "Error"]

\* the clock counts half days from the start of the current year
HalfDaysPerYear == 730
\* `${currentYear}-01-01T00:00:00`
DefaultStartTime == 0
\* `${currentYear + 1}-12-31T23:59:59`
DefaultEndTime == 2 * HalfDaysPerYear

\* the params getAttendanceData(startTime, endTime, criteria) sends
QueryParams(startTime, endTime, criteria) ==
    [start |-> DefaultStartTime, end |-> DefaultEndTime, criteria |-> criteria]

\* the window start getRecentAttendanceData computes
WindowStart(watermark, endTime) ==
    IF watermark # NoTime THEN watermark ELSE endTime - LookBack

\* ---------------------------------------------------- GoogleSheetsService
HeaderRow ==
    <<"UID", "Sync Time", "Logged Time", "Type", "Device ID", "Location",
      "Person ID", "RFID", "Primary Display", "Secondary Display",
      "Project Code", "Project Name", "Organization">>

\* the row appendAttendanceData builds for a record
ToRow(record) ==
    <<record.uid, record.sync_time, record.logged_time, record.type,
      record.device_identifier, record.location, record.person_identifier,
      OrEmpty(record.rfid), record.primary_display_text,
      record.secondary_display_text, OrEmpty(record.project.code),
      OrEmpty(record.project.name), OrEmpty(record.project.organization)>>

\* getExistingUIDs(): column A without its first row; [] when the read fails
GetExistingUIDs(rows, readOk) ==
    IF readOk /\ Len(rows) > 1
    THEN SelectSeq([i \in 1..(Len(rows) - 1) |-> rows[i + 1][1]],
                   LAMBDA uid : ~Falsy(uid))
    ELSE <<>>

Includes(seq, x) == \E i \in 1..Len(seq) : seq[i] = x

\* the filter of appendAttendanceData: records whose uid is not among existingUIDs
NewRecords(attendanceRecords, existingUIDs) ==
    SelectSeq(attendanceRecords,
              LAMBDA record : ~Includes(existingUIDs, record.uid))

Rows(newRecords) == [i \in 1..Len(newRecords) |-> ToRow(newRecords[i])]


\* ------------------------------------------------------------------ state
VARIABLES
    server,          \* startServer: "booting", "listening" or "exited"
    initialized,     \* GoogleSheetsService.initialized
    sheet,           \* the rows of the spreadsheet, row 1 first
    lastSyncTime,    \* AttendanceService.lastSyncTime (the watermark)
    isRunning,       \* SyncService.isRunning (the RunningFlag)
    lastSyncResult,  \* SyncService.lastSyncResult
    now,             \* the clock read by new Date()
    calls,           \* the bag of invocations waiting for a network answer
    ret,             \* the answer that resumed the step just taken and what it returned
    trail,           \* the guard decisions of the invocations counted by SpecTwoAuto
    cronJob,         \* SyncService.cronJob
    syncInterval,    \* SyncService.syncInterval (SYNC_INTERVAL)
    timers           \* the number of started node-cron tasks

vars ==
    <<server, initialized, sheet, lastSyncTime, isRunning, lastSyncResult,
      now, calls, ret, trail, cronJob, syncInterval, timers>>

\* the scheduler's part of the state
sched == <<cronJob, syncInterval, timers>>

\* an invocation in flight: which method, what it waits for, the endTime of
\* its fetch window, the records appendAttendanceData works on
Call(kind, pc, endTime, records) ==
    [kind |-> kind, pc |-> pc, endTime |-> endTime, records |-> records]

Add(c) == calls (+) SetToBag({c})
Replace(c, d) == (calls (-) SetToBag({c})) (+) SetToBag({d})
Remove(c) == calls (-) SetToBag({c})
InFlight == BagToSet(calls)

\* a result object without its timestamp, duration and recordsFetched, which
\* nothing reads; a field the object lacks is Undefined (error) or -1
\* (recordsAdded)
Result(success, message, error, recordsAdded) ==
    [success |-> success, message |-> message, error |-> error,
     recordsAdded |-> recordsAdded]

\* what the step just taken did: the network answer that resumed a handler
\* (`event`, with the data array of a fetch answer in `batch`) and, when an
\* invocation returned in it, which method (`kind`) and the object returned
Step(event, batch, kind, result) ==
    [event |-> event, batch |-> batch, kind |-> kind, result |-> result]
NoReturn == Step("none", <<>>, "none", NoResult)
Returned(kind, result) == Step("none", <<>>, kind, result)

\* ------------------------------------------------------------ the scheduler
NoJob == "null"             \* cronJob = null
CronTask == "task"          \* the task object cron.schedule returns

\* process.env.SYNC_INTERVAL || "*/5 * * * *"
DefaultInterval == "*/5 * * * *"

\* the values SYNC_INTERVAL may give syncInterval
Intervals == {DefaultInterval, "0 * * * *", "every five minutes"}

\* cron.validate accepting every expression
ValidateAnything(expression) == TRUE

\* cron.validate(expression)
CronValidate(expression) == expression \in {DefaultInterval, "0 * * * *"}

\* startCronJob without its test of this.cronJob
NeverStarted(job) == FALSE

\* the test `if (this.cronJob)` of startCronJob
AlreadyStarted(job) == job # NoJob

InvalidCronMessage == "Invalid cron expression"

\* a value returned that is not a result object
Value(v) == [value |-> v]

\* the Error an operation threw to its caller
Thrown(message) == [message |-> message, name |-> "Error"]

\* an operation ended by throwing instead of returning
Raised(kind, message) == Step("throw", <<>>, kind, Thrown(message))

\* startCronJob(): what it leaves in cronJob, how many tasks are started
\* afterwards, and whether it threw or which value it returned
StartCronJobOutcome(job, interval, started) ==
    IF AlreadyStarted(job)
    THEN [cronJob |-> job, timers |-> started, threw |-> FALSE, value |-> FALSE]
    ELSE IF ~CronValidate(interval)
    THEN [cronJob |-> job, timers |-> started, threw |-> TRUE, value |-> FALSE]
    ELSE [cronJob |-> CronTask, timers |-> started + 1, threw |-> FALSE,
          value |-> TRUE]

\* stopCronJob()
StopCronJobOutcome(job, started) ==
    IF job # NoJob
    THEN [cronJob |-> NoJob, timers |-> started - 1, value |-> TRUE]
    ELSE [cronJob |-> job, timers |-> started, value |-> FALSE]

\* isCronJobRunning()
IsCronJobRunning == cronJob # NoJob

\* the state after `new SyncService()` with SYNC_INTERVAL giving `interval`
Constructed(interval) ==
    /\ server = "booting"
    /\ initialized = FALSE
    /\ sheet = <<>>
    /\ lastSyncTime = NoTime
    /\ isRunning = FALSE
    /\ lastSyncResult = NoResult
    /\ now = LookBack + 1
    /\ calls = EmptyBag
    /\ ret = NoReturn
    /\ trail = <<>>
    /\ cronJob = NoJob
    /\ syncInterval = interval
    /\ timers = 0

Init == Constructed(DefaultInterval)

\* values.get on A1:M1 answers without values: the sheet has no row 1 or an
\* empty one
RowOneEmpty(rows) == Len(rows) = 0 \/ rows[1] = <<>>

\* values.update on A1:M1: the values become row 1, the other rows stay
UpdateRowOne(rows, values) ==
    IF Len(rows) = 0 THEN <<values>> ELSE [rows EXCEPT ![1] = values]

\* createHeaderRow writing the header without looking at row 1
CreateHeaderRowAlways(rows) == UpdateRowOne(rows, HeaderRow)

\* createHeaderRow(): writes the header when A1:M1 holds no value
CreateHeaderRow(rows) ==
    IF RowOneEmpty(rows) THEN UpdateRowOne(rows, HeaderRow) ELSE rows

\* startServer: new SyncService(), initialize() succeeded, startCronJob() (a
\* throw is caught and logged), app.listen
InitializeOk ==
    /\ server = "booting"
    /\ initialized' = TRUE
    /\ sheet' = CreateHeaderRow(sheet)
    /\ LET started == StartCronJobOutcome(cronJob, syncInterval, timers)
       IN  cronJob' = started.cronJob /\ timers' = started.timers
    /\ server' = "listening"
    /\ ret' = NoReturn
    /\ UNCHANGED <<lastSyncTime, isRunning, lastSyncResult, now, calls, trail,
                   syncInterval>>

\* startServer: initialize() threw (key file, header read or write), process.exit(1)
InitializeFail ==
    /\ server = "booting"
    /\ \E keyFileFound \in BOOLEAN :
          /\ initialized' = keyFileFound
          /\ server' = "exited"
    /\ ret' = NoReturn
    /\ UNCHANGED <<sheet, lastSyncTime, isRunning, lastSyncResult, now, calls,
                   trail, sched>>

\* time passes
Tick ==
    /\ server = "listening"
    /\ now < LookBack + MaxTime
    /\ now' = now + 1
    /\ ret' = NoReturn
    /\ UNCHANGED <<server, initialized, sheet, lastSyncTime, isRunning,
                   lastSyncResult, calls, trail, sched>>

\* ------------------------------------------------------------ SyncService
StoreErrorMessage == "store error"

\* performSync: the object returned when isRunning is already set
SkippedResult == Result(FALSE, "Sync already in progress", Undefined, -1)

\* performSync: the object of its catch block
SyncFailed(message, name) == Result(FALSE, message, name, 0)

\* performManualSync: the object of its catch block
ManualFailed(message, name) == Result(FALSE, message, name, -1)

\* performManualSync: the object its catch block builds from the guard's throw
RejectedResult ==
    ManualFailed("Another sync operation is already running", "Error")

\* fetchAttendanceData: the object of its catch block
QueryFailed(message, name) == Result(FALSE, message, name, -1)

\* the success object with recordsAdded as appendAttendanceData returned it,
\* without the `|| 0`
CompletedAsReturned(kind, added) ==
    Result(TRUE,
           IF kind = "auto" THEN "Sync completed successfully"
                            ELSE "Manual sync completed successfully",
           Undefined, added)

\* the object a sync returns once appendAttendanceData has returned `added`
\* (undefined, here -1, when it wrote nothing: recordsAdded || 0)
Completed(kind, added) ==
    Result(TRUE,
           IF kind = "auto" THEN "Sync completed successfully"
                            ELSE "Manual sync completed successfully",
           Undefined, IF added = -1 THEN 0 ELSE added)

\* the guard of performSync and performManualSync
GuardClear(flag) == ~flag

\* what lastSyncResult is after an invocation of `kind` that passed the guard
\* returned `result`: performSync assigns it on every such path, the others never
LastResultAfter(kind, result) ==
    IF kind = "auto" THEN result ELSE lastSyncResult

\* performSync storing the object it returns from its guard, as its other paths do
LastResultStoredOnSkip(result) == result

\* what lastSyncResult is after performSync returned from its guard
LastResultAfterSkip(result) == lastSyncResult

\* performSync / performManualSync without their `finally` block
FlagLeftSet(kind) == isRunning

\* the `finally` of performSync / performManualSync; fetchAttendanceData has none
FlagAfter(kind) ==
    IF kind \in {"auto", "manual"} THEN FALSE ELSE isRunning

\* an invocation that sends its fetch again when a request failed
ReturnOrRetry(c, event, batch, result) ==
    IF result.success
    THEN /\ calls' = Remove(c)
         /\ lastSyncResult' = LastResultAfter(c.kind, result)
         /\ isRunning' = FlagAfter(c.kind)
         /\ ret' = Step(event, batch, c.kind, result)
    ELSE /\ calls' = Replace(c, Call(c.kind, "fetch", c.endTime, <<>>))
         /\ ret' = Step(event, batch, "none", NoResult)
         /\ UNCHANGED <<lastSyncResult, isRunning>>

\* invocation c, resumed by `event`, returns `result`
Return(c, event, batch, result) ==
    /\ calls' = Remove(c)
    /\ lastSyncResult' = LastResultAfter(c.kind, result)
    /\ isRunning' = FlagAfter(c.kind)
    /\ ret' = Step(event, batch, c.kind, result)

\* getRecentAttendanceData: lastSyncTime after getAttendanceData ended
WatermarkAfterRecent(res, endTime) ==
    IF res.ok THEN endTime ELSE lastSyncTime

\* getAttendanceDataForRange updating lastSyncTime as getRecentAttendanceData does
WatermarkMovedByRange(res, endDate) ==
    IF res.ok THEN endDate ELSE lastSyncTime

\* getAttendanceDataForRange: lastSyncTime after getAttendanceData ended
WatermarkAfterRange(res, endDate) == lastSyncTime

\* performSync up to its first await: the guard is clear, the flag is taken and
\* getRecentAttendanceData has read the clock and sent its request
AutoSyncStartBody ==
    /\ server = "listening"
    /\ BagCardinality(calls) < Cardinality(Slots)
    /\ GuardClear(isRunning)
    /\ isRunning' = TRUE
    /\ calls' = Add(Call("auto", "fetch", now, <<>>))
    /\ ret' = NoReturn
    /\ UNCHANGED <<server, initialized, sheet, lastSyncTime, lastSyncResult, now,
                   sched>>

AutoSyncStart == AutoSyncStartBody /\ UNCHANGED trail

\* performSync with isRunning set: it returns from inside the try, so the
\* finally block runs
AutoSyncSkipBody ==
    /\ server = "listening"
    /\ ~GuardClear(isRunning)
    /\ ret' = Returned("auto", SkippedResult)
    /\ lastSyncResult' = LastResultAfterSkip(SkippedResult)
    /\ isRunning' = FlagAfter("auto")
    /\ UNCHANGED <<server, initialized, sheet, lastSyncTime, now, calls, sched>>

AutoSyncSkip == AutoSyncSkipBody /\ UNCHANGED trail

\* the windows POST /sync/range passes on (startDate < endDate)
ManualRanges == {<<1, LookBack>>}

\* performManualSync(startDate, endDate) up to its first await
ManualSyncStartBody ==
    /\ server = "listening"
    /\ BagCardinality(calls) < Cardinality(Slots)
    /\ GuardClear(isRunning)
    /\ isRunning' = TRUE
    /\ \E range \in ManualRanges :
          calls' = Add(Call("manual", "fetch", range[2], <<>>))
    /\ ret' = NoReturn
    /\ UNCHANGED <<server, initialized, sheet, lastSyncTime, lastSyncResult,
                   now, sched>>

ManualSyncStart == ManualSyncStartBody /\ UNCHANGED trail

\* performManualSync with isRunning set: it throws inside the try
ManualSyncRejectBody ==
    /\ server = "listening"
    /\ ~GuardClear(isRunning)
    /\ ret' = Returned("manual", RejectedResult)
    /\ isRunning' = FlagAfter("manual")
    /\ UNCHANGED <<server, initialized, sheet, lastSyncTime, lastSyncResult,
                   now, calls, sched>>

ManualSyncReject == ManualSyncRejectBody /\ UNCHANGED trail

\* fetchAttendanceData(filters) up to its first await
QueryStart ==
    /\ server = "listening"
    /\ BagCardinality(calls) < Cardinality(Slots)
    /\ calls' = Add(Call("query", "fetch", now, <<>>))
    /\ ret' = NoReturn
    /\ UNCHANGED <<server, initialized, sheet, lastSyncTime, isRunning,
                   lastSyncResult, now, trail, sched>>

\* appendAttendanceData(processed) is entered with records to write: it sends
\* the read of column A
StartAppend(c, event, batch, processed) ==
    /\ calls' = Replace(c, Call(c.kind, "read", c.endTime, processed))
    /\ ret' = Step(event, batch, "none", NoResult)
    /\ UNCHANGED <<lastSyncResult, isRunning>>

FetchEvent(outcome) == IF outcome = "timeout" THEN "fetch timeout"
                       ELSE IF outcome \in {"ok", "nodata"} THEN "fetch ok"
                       ELSE "fetch failed"

\* performSync resumed by the end of the request of getRecentAttendanceData
AutoFetchDone ==
    \E c \in InFlight, response \in Responses :
        LET res == GetAttendanceData(response.outcome, response.batch)
            processed == ProcessAttendanceRecords(res.records, res.project)
            ev == FetchEvent(response.outcome)
        IN  /\ c.kind = "auto" /\ c.pc = "fetch"
            /\ lastSyncTime' = WatermarkAfterRecent(res, c.endTime)
            /\ IF ~res.ok
               THEN Return(c, ev, response.batch, SyncFailed(res.message, res.name))
               ELSE IF Len(res.records) = 0
               THEN Return(c, ev, response.batch, Result(TRUE, "No new records", Undefined, 0))
               ELSE IF Len(processed) = 0
               THEN Return(c, ev, response.batch, Result(TRUE, "No valid records to sync", Undefined, 0))
               ELSE StartAppend(c, ev, response.batch, processed)
            /\ UNCHANGED <<server, initialized, sheet, now, trail, sched>>

\* performManualSync resumed by the end of the request of
\* getAttendanceDataForRange
ManualFetchDone ==
    \E c \in InFlight, response \in Responses :
        LET res == GetAttendanceData(response.outcome, response.batch)
            processed == ProcessAttendanceRecords(res.records, res.project)
            ev == FetchEvent(response.outcome)
        IN  /\ c.kind = "manual" /\ c.pc = "fetch"
            /\ lastSyncTime' = WatermarkAfterRange(res, c.endTime)
            /\ IF ~res.ok
               THEN Return(c, ev, response.batch, ManualFailed(res.message, res.name))
               ELSE IF Len(res.records) = 0
               THEN Return(c, ev, response.batch, Result(TRUE,
                                     "No records found in the specified date range",
                                     Undefined, 0))
               ELSE IF Len(processed) = 0
               THEN Return(c, ev, response.batch, Completed("manual", -1))
               ELSE StartAppend(c, ev, response.batch, processed)
            /\ UNCHANGED <<server, initialized, sheet, now, trail, sched>>

\* fetchAttendanceData resumed by the end of the request of
\* getRecentAttendanceData
QueryFetchDone ==
    \E c \in InFlight, response \in Responses :
        LET res == GetAttendanceData(response.outcome, response.batch)
            processed == ProcessAttendanceRecords(res.records, res.project)
            ev == FetchEvent(response.outcome)
        IN  /\ c.kind = "query" /\ c.pc = "fetch"
            /\ lastSyncTime' = WatermarkAfterRecent(res, c.endTime)
            /\ IF ~res.ok
               THEN Return(c, ev, response.batch, QueryFailed(res.message, res.name))
               ELSE IF Len(res.records) = 0
               THEN Return(c, ev, response.batch, Result(TRUE, "No records found", Undefined, -1))
               ELSE IF Len(processed) = 0
               THEN Return(c, ev, response.batch, Result(TRUE, "No valid records after processing",
                                     Undefined, -1))
               ELSE Return(c, ev, response.batch, Result(TRUE, "Data fetched successfully",
                                     Undefined, -1))
            /\ UNCHANGED <<server, initialized, sheet, now, trail, sched>>

ReadEvent(readOk) == IF readOk THEN "read ok" ELSE "read failed"

\* appendAttendanceData resumed by the end of getExistingUIDs' read of column A
ReadDone ==
    \E c \in InFlight, readOk \in BOOLEAN :
        LET existingUIDs == GetExistingUIDs(sheet, readOk)
            newRecords == NewRecords(c.records, existingUIDs)
        IN  /\ c.pc = "read"
            /\ IF Len(newRecords) = 0
               THEN Return(c, ReadEvent(readOk), <<>>, Completed(c.kind, -1))
               ELSE /\ calls' = Replace(c, Call(c.kind, "append", c.endTime,
                                                newRecords))
                    /\ ret' = Step(ReadEvent(readOk), <<>>, "none", NoResult)
                    /\ UNCHANGED <<lastSyncResult, isRunning>>
            /\ UNCHANGED <<server, initialized, sheet, lastSyncTime, now, trail, sched>>

\* appendAttendanceData resumed by the answer to values.append: the rows are in
\* the sheet and their count is returned
AppendOk ==
    \E c \in InFlight :
        /\ c.pc = "append"
        /\ Len(sheet) - 1 + Len(c.records) <= MaxRows
        /\ sheet' = sheet \o Rows(c.records)
        /\ Return(c, "append ok", <<>>, Completed(c.kind, Len(c.records)))
        /\ UNCHANGED <<server, initialized, lastSyncTime, now, trail, sched>>

\* values.append failed: appendAttendanceData rethrows, the sync's catch block
\* builds the result
AppendFail ==
    \E c \in InFlight :
        /\ c.pc = "append"
        /\ Return(c, "append failed", <<>>,
                  IF c.kind = "auto"
                  THEN SyncFailed(StoreErrorMessage, "Error")
                  ELSE ManualFailed(StoreErrorMessage, "Error"))
        /\ UNCHANGED <<server, initialized, sheet, lastSyncTime, now, trail, sched>>

Next ==
    \/ InitializeOk
    \/ InitializeFail
    \/ Tick
    \/ AutoSyncStart
    \/ AutoSyncSkip
    \/ ManualSyncStart
    \/ ManualSyncReject
    \/ QueryStart
    \/ AutoFetchDone
    \/ ManualFetchDone
    \/ QueryFetchDone
    \/ ReadDone
    \/ AppendOk
    \/ AppendFail

Spec == Init /\ [][Next]_vars

\* ------------------------------------- two runAutoSync invocations, no other
\* The specification of the scenario "exactly two runAutoSync invocations":
\* performSync is invoked at most twice and nothing else is.  `trail` keeps, for
\* each invocation, what its guard decided, whether another invocation was in
\* flight at that moment, and the watermark it found.
Invoked(decision) ==
    [decision |-> decision, overlapped |-> calls # EmptyBag,
     before |-> lastSyncTime]

TwoAutoStart ==
    /\ Len(trail) < 2
    /\ AutoSyncStartBody
    /\ trail' = Append(trail, Invoked("run"))

TwoAutoSkip ==
    /\ Len(trail) < 2
    /\ AutoSyncSkipBody
    /\ trail' = Append(trail, Invoked("skip"))

NextTwoAuto ==
    \/ InitializeOk
    \/ Tick
    \/ TwoAutoStart
    \/ TwoAutoSkip
    \/ AutoFetchDone
    \/ ReadDone
    \/ AppendOk
    \/ AppendFail

SpecTwoAuto == Init /\ [][NextTwoAuto]_vars

\* ------------------------------------------ runAutoSync with its windows kept
\* what `trail` keeps of an invocation that passed the guard: the window handed
\* to getAttendanceData, the params of the request sent for it, the watermark
\* found and whether another invocation was in flight
Window(kind, startTime, endTime) ==
    [kind |-> kind, decision |-> "run", start |-> startTime, end |-> endTime,
     params |-> QueryParams(startTime, endTime, "sync_time"),
     before |-> lastSyncTime, overlapped |-> calls # EmptyBag]

\* what `trail` keeps of an invocation the guard turned away
TurnedAway(kind) ==
    [kind |-> kind, decision |-> "skip", before |-> lastSyncTime,
     overlapped |-> calls # EmptyBag]

WindowedAutoStart ==
    /\ Len(trail) < MaxAttempts
    /\ AutoSyncStartBody
    /\ trail' = Append(trail,
                       Window("auto", WindowStart(lastSyncTime, now), now))

WindowedAutoSkip ==
    /\ Len(trail) < MaxAttempts
    /\ AutoSyncSkipBody
    /\ trail' = Append(trail, TurnedAway("auto"))

\* at most MaxAttempts runAutoSync invocations and nothing else
NextWindows ==
    \/ InitializeOk
    \/ Tick
    \/ WindowedAutoStart
    \/ WindowedAutoSkip
    \/ AutoFetchDone
    \/ ReadDone
    \/ AppendOk
    \/ AppendFail

SpecWindows == Init /\ [][NextWindows]_vars

\* --------------------------- a bounded number of syncs, every request answered
\* what `trail` keeps of a performManualSync invocation that passed the guard
Acquired(kind) ==
    [kind |-> kind, decision |-> "run", before |-> lastSyncTime,
     overlapped |-> calls # EmptyBag]

CountedManualStart ==
    /\ Len(trail) < MaxAttempts
    /\ ManualSyncStartBody
    /\ trail' = Append(trail, Acquired("manual"))

CountedManualReject ==
    /\ Len(trail) < MaxAttempts
    /\ ManualSyncRejectBody
    /\ trail' = Append(trail, TurnedAway("manual"))

\* at most MaxAttempts sync invocations, auto or manual
NextLive ==
    \/ InitializeOk
    \/ WindowedAutoStart
    \/ WindowedAutoSkip
    \/ CountedManualStart
    \/ CountedManualReject
    \/ AutoFetchDone
    \/ ManualFetchDone
    \/ ReadDone
    \/ AppendOk
    \/ AppendFail

\* every request sent to the source or to the sheet is eventually answered,
\* with a result or with a failure
SpecLive ==
    /\ Init /\ [][NextLive]_vars
    /\ WF_vars(AutoFetchDone)
    /\ WF_vars(ManualFetchDone)
    /\ WF_vars(ReadDone)
    /\ WF_vars(AppendOk \/ AppendFail)

\* ------------------------------------------- the status and test operations
\* getStatus(): the fields of the object it returns that the state determines
Status ==
    [initialized |-> initialized, cronJobRunning |-> IsCronJobRunning,
     syncInProgress |-> isRunning, syncInterval |-> syncInterval,
     lastSyncResult |-> lastSyncResult, lastSyncTime |-> lastSyncTime]

\* GET /status: getStatus()
GetStatus ==
    /\ server = "listening"
    /\ ret' = Returned("getStatus", Status)
    /\ UNCHANGED <<server, initialized, sheet, lastSyncTime, isRunning,
                   lastSyncResult, now, calls, trail, sched>>

\* GET /sync/last: reads lastSyncResult
GetLastResult ==
    /\ server = "listening"
    /\ ret' = Returned("getLastResult", [lastSyncResult |-> lastSyncResult])
    /\ UNCHANGED <<server, initialized, sheet, lastSyncTime, isRunning,
                   lastSyncResult, now, calls, trail, sched>>

\* GET /cron/status: isCronJobRunning()
CronStatus ==
    /\ server = "listening"
    /\ ret' = Returned("isCronJobRunning", Value(IsCronJobRunning))
    /\ UNCHANGED <<server, initialized, sheet, lastSyncTime, isRunning,
                   lastSyncResult, now, calls, trail, sched>>

\* testConnection using getRecentAttendanceData for its request
WatermarkMovedByTest(res, endTime) ==
    IF res.ok THEN endTime ELSE lastSyncTime

\* testConnection: lastSyncTime after its getAttendanceData ended
WatermarkAfterTest(res, endTime) == lastSyncTime

\* testServices() in flight: waiting for the request of testConnection, or for
\* getSheetInfo with the outcome of testConnection kept
Testing(pc, endTime, connected) ==
    [kind |-> "test", pc |-> pc, endTime |-> endTime, records |-> <<>>,
     connected |-> connected]

\* the object testServices returns, without its timestamp
TestResults(connected, sheetInfoOk) ==
    [attendanceService |-> connected, googleSheets |-> sheetInfoOk,
     overallSuccess |-> connected /\ sheetInfoOk]

\* GET /test: testServices() up to the request of testConnection
TestStart ==
    /\ server = "listening"
    /\ BagCardinality(calls) < Cardinality(Slots)
    /\ calls' = Add(Testing("connect", now, FALSE))
    /\ ret' = NoReturn
    /\ UNCHANGED <<server, initialized, sheet, lastSyncTime, isRunning,
                   lastSyncResult, now, trail, sched>>

\* testServices resumed by the end of testConnection's request: a failure is
\* caught by testConnection and becomes success: false; getSheetInfo is sent
TestConnectionDone ==
    \E c \in InFlight, response \in Responses :
        LET res == GetAttendanceData(response.outcome, response.batch)
        IN  /\ c.kind = "test" /\ c.pc = "connect"
            /\ lastSyncTime' = WatermarkAfterTest(res, c.endTime)
            /\ calls' = Replace(c, Testing("info", c.endTime, res.ok))
            /\ ret' = Step(FetchEvent(response.outcome), response.batch, "none",
                           NoResult)
            /\ UNCHANGED <<server, initialized, sheet, isRunning, lastSyncResult,
                           now, trail, sched>>

\* testServices resumed by the end of getSheetInfo: it returns its results
TestSheetInfoDone ==
    \E c \in InFlight, sheetInfoOk \in BOOLEAN :
        /\ c.kind = "test" /\ c.pc = "info"
        /\ Return(c, IF sheetInfoOk THEN "info ok" ELSE "info failed", <<>>,
                  TestResults(c.connected, sheetInfoOk))
        /\ UNCHANGED <<server, initialized, sheet, lastSyncTime, now, trail,
                       sched>>

\* the status and test operations beside runAutoSync
NextReadOnly ==
    \/ InitializeOk
    \/ AutoSyncStart
    \/ AutoSyncSkip
    \/ AutoFetchDone
    \/ ReadDone
    \/ AppendOk
    \/ AppendFail
    \/ GetStatus
    \/ GetLastResult
    \/ CronStatus
    \/ TestStart
    \/ TestConnectionDone
    \/ TestSheetInfoDone

SpecReadOnly == Init /\ [][NextReadOnly]_vars

\* ------------------------------------------------- the scheduler's operations
\* POST /cron/start: startCronJob()
StartCronJob ==
    /\ server = "listening"
    /\ LET started == StartCronJobOutcome(cronJob, syncInterval, timers)
       IN  /\ cronJob' = started.cronJob
           /\ timers' = started.timers
           /\ ret' = IF started.threw
                     THEN Raised("startCronJob", InvalidCronMessage)
                     ELSE Returned("startCronJob", Value(started.value))
    /\ UNCHANGED <<server, initialized, sheet, lastSyncTime, isRunning,
                   lastSyncResult, now, calls, trail, syncInterval>>

\* POST /cron/stop: stopCronJob()
StopCronJob ==
    /\ server = "listening"
    /\ LET stopped == StopCronJobOutcome(cronJob, timers)
       IN  /\ cronJob' = stopped.cronJob
           /\ timers' = stopped.timers
           /\ ret' = Returned("stopCronJob", Value(stopped.value))
    /\ UNCHANGED <<server, initialized, sheet, lastSyncTime, isRunning,
                   lastSyncResult, now, calls, trail, syncInterval>>

\* a started task fires: its callback invokes performSync, which passes the guard
CronTickRun ==
    /\ timers > 0
    /\ AutoSyncStartBody
    /\ UNCHANGED trail

\* a started task fires while isRunning is set
CronTickSkip ==
    /\ timers > 0
    /\ AutoSyncSkipBody
    /\ UNCHANGED trail

\* the service with any SYNC_INTERVAL, its scheduler operated through
\* POST /cron/start and POST /cron/stop, performSync invoked by the task only
InitSchedule == \E interval \in Intervals : Constructed(interval)

NextSchedule ==
    \/ InitializeOk
    \/ InitializeFail
    \/ StartCronJob
    \/ StopCronJob
    \/ CronTickRun
    \/ CronTickSkip
    \/ AutoFetchDone
    \/ ReadDone
    \/ AppendOk
    \/ AppendFail

SpecSchedule == InitSchedule /\ [][NextSchedule]_vars

\* ------------------------------------- appendAttendanceData called in sequence
\* a record as processAttendanceRecords hands it on
Processed(uid, ty) == Normalized(Rec(uid, ty, "d", "p"), TheProject)

\* the records the arrays are made of: two of them carry the same uid
StoreRecords ==
    {Processed("a", "card"), Processed("a", "face"), Processed("b", "card")}

\* the arrays of at most MaxBatch records, no record twice in an array
RecordArrays ==
    {q \in UNION {[1..n -> StoreRecords] : n \in 0..MaxBatch} :
        \A i, j \in 1..Len(q) : i # j => q[i] # q[j]}

\* appendAttendanceData(attendanceRecords) run from its call to its end on a
\* sheet holding `rows`, the read of column A and values.append answering as
\* readOk and appendOk say: the rows afterwards, the value returned (-1 for
\* undefined), whether it threw and whether it sent values.append
AppendAttendanceData(rows, attendanceRecords, readOk, appendOk) ==
    LET existingUIDs == GetExistingUIDs(rows, readOk)
        newRecords == NewRecords(attendanceRecords, existingUIDs)
    IN  IF Len(attendanceRecords) = 0 \/ Len(newRecords) = 0
        THEN [sheet |-> rows, returned |-> -1, threw |-> FALSE, wrote |-> FALSE]
        ELSE IF appendOk
        THEN [sheet |-> rows \o Rows(newRecords), returned |-> Len(newRecords),
              threw |-> FALSE, wrote |-> TRUE]
        ELSE [sheet |-> rows, returned |-> -1, threw |-> TRUE, wrote |-> TRUE]

\* one call of appendAttendanceData, nothing else in flight; `trail` keeps the
\* array, the answers of the sheet, the outcome and the rows found
AppendCall ==
    /\ server = "listening"
    /\ calls = EmptyBag
    /\ Len(trail) < 2
    /\ \E attendanceRecords \in RecordArrays, readOk, appendOk \in BOOLEAN :
          LET done == AppendAttendanceData(sheet, attendanceRecords, readOk,
                                           appendOk)
          IN  /\ sheet' = done.sheet
              /\ trail' = Append(trail,
                                 [records |-> attendanceRecords,
                                  readOk |-> readOk, threw |-> done.threw,
                                  returned |-> done.returned,
                                  wrote |-> done.wrote, before |-> sheet])
    /\ ret' = NoReturn
    /\ UNCHANGED <<server, initialized, lastSyncTime, isRunning, lastSyncResult,
                   now, calls, sched>>

NextAppend ==
    \/ InitializeOk
    \/ AppendCall

SpecAppend == Init /\ [][NextAppend]_vars

\* ---------------------------------------- createHeaderRow called in sequence
\* what row 1 of the spreadsheet may hold when the service finds it
FirstRows == {<<>>, HeaderRow, <<"Badge", "Seen">>}

\* the spreadsheets the service may find: nothing at all, or a row 1 followed
\* by the rows of earlier appends
FoundSheets ==
    {<<>>} \cup {<<first>> \o Rows(q) : first \in FirstRows, q \in RecordArrays}

\* one call of createHeaderRow(): ensureInitialized, the read of A1:M1 and,
\* when it held nothing, the update; a failed request is rethrown and leaves
\* the sheet as it was.  `trail` keeps the rows found and the outcome.
CreateHeaderRowCall ==
    /\ server = "booting"
    /\ Len(trail) < 3
    /\ \E requestsOk \in BOOLEAN :
          /\ sheet' = IF requestsOk THEN CreateHeaderRow(sheet) ELSE sheet
          /\ trail' = Append(trail, [before |-> sheet, threw |-> ~requestsOk])
    /\ initialized' = TRUE
    /\ ret' = NoReturn
    /\ UNCHANGED <<server, lastSyncTime, isRunning, lastSyncResult, now, calls,
                   sched>>

\* the service constructed in front of any spreadsheet
InitHeader ==
    /\ server = "booting"
    /\ initialized = FALSE
    /\ sheet \in FoundSheets
    /\ lastSyncTime = NoTime
    /\ isRunning = FALSE
    /\ lastSyncResult = NoResult
    /\ now = LookBack + 1
    /\ calls = EmptyBag
    /\ ret = NoReturn
    /\ trail = <<>>
    /\ cronJob = NoJob
    /\ syncInterval = DefaultInterval
    /\ timers = 0

NextHeader == CreateHeaderRowCall

SpecHeader == InitHeader /\ [][NextHeader]_vars

\* ----------------------------------------------------------------- claims
SyncCalls == {c \in InFlight : c.kind \in {"auto", "manual"}}

\* the sync attempts between their guard acquisition and their completion
SyncsInFlight == BagCardinality([c \in SyncCalls |-> CopiesIn(c, calls)])

\* C1: at most one sync attempt (auto or manual) is ever between its guard
\* acquisition and its completion, whatever the interleaving of invocations.
C1_MutualExclusion == SyncsInFlight <= 1

\* C2: when exactly two runAutoSync invocations overlap, the second returns
\* the "already in progress" result without fetching or appending, only one
\* ever performs the fetch/append sequence, the skipped one never writes
\* lastSyncResult, and once both have returned lastSyncResult is the result of
\* the one that executed.
C2_TwoAutoSyncs ==
    /\ BagCardinality(calls) <= 1
    /\ lastSyncResult # SkippedResult
    /\ \A i \in 1..Len(trail) :
          trail[i].overlapped => i = 2 /\ trail[i].decision = "skip"
    /\ (Len(trail) = 2 /\ trail[2].overlapped /\ ret.result = SkippedResult) =>
          /\ ret.kind = "auto" /\ ret.event = "none"
          /\ calls # EmptyBag
    /\ (Len(trail) = 2 /\ trail[2].overlapped /\ calls = EmptyBag) =>
          /\ lastSyncResult # NoResult
          /\ ret.kind = "auto" => lastSyncResult = ret.result

\* C2 witness: the second invocation was skipped during the first, and the
\* first has returned after appending two rows.
C2_Witness ==
    /\ Len(trail) = 2 /\ trail[2].overlapped /\ trail[2].decision = "skip"
    /\ calls = EmptyBag
    /\ ret.event = "append ok"
    /\ lastSyncResult = Completed("auto", 2)

UIDColumn == [i \in 1..(Len(sheet) - 1) |-> sheet[i + 1][1]]

\* C3: the UID column of the data rows never holds the same uid in two rows.
C3_NoDuplicateUIDs ==
    \A i, j \in 1..Len(UIDColumn) : i # j => UIDColumn[i] # UIDColumn[j]

\* C4: the watermark (lastSyncTime) never decreases once set.
C4_WatermarkMonotonic ==
    [][lastSyncTime # NoTime => lastSyncTime' >= lastSyncTime]_vars

\* a step of a performManualSync invocation: its start, its rejection, or its
\* resumption by a network answer
ManualStep ==
    \/ ret'.kind = "manual"
    \/ \E c \in BagToSet(calls) \cup BagToSet(calls') :
          c.kind = "manual" /\ CopiesIn(c, calls) # CopiesIn(c, calls')

\* C5: no step of a runManualSync invocation, whether it succeeds, fails or is
\* rejected, changes the watermark (lastSyncTime).
C5_ManualSyncIsolation == [][ManualStep => lastSyncTime' = lastSyncTime]_vars

\* C5 witness: a manual sync has returned after appending rows while the
\* watermark was set by an earlier auto sync.
C5_Witness ==
    /\ ret.kind = "manual" /\ ret.event = "append ok"
    /\ ret.result.success
    /\ lastSyncTime # NoTime

\* a step of a fetchAttendanceData invocation
QueryStep ==
    \/ ret'.kind = "query"
    \/ \E c \in BagToSet(calls) \cup BagToSet(calls') :
          c.kind = "query" /\ CopiesIn(c, calls) # CopiesIn(c, calls')

\* C6: queryRecords (fetchAttendanceData) is read-only: none of its steps
\* appends to the store or changes the watermark, the RunningFlag or
\* lastSyncResult.
C6_QueryReadOnly ==
    [][QueryStep =>
          UNCHANGED <<sheet, lastSyncTime, isRunning, lastSyncResult>>]_vars

\* the invocation of SpecTwoAuto that passed the guard last
LastRun ==
    LET runs == {i \in 1..Len(trail) : trail[i].decision = "run"}
    IN  trail[CHOOSE i \in runs : \A j \in runs : j <= i]

\* C7: a runAutoSync attempt that fails after its fetch succeeded (the store
\* call raises) leaves the watermark as it was before the attempt.
C7_WatermarkOnlyOnSuccess ==
    (ret.kind = "auto" /\ ret.event = "append failed") =>
        /\ ~ret.result.success
        /\ lastSyncTime = LastRun.before

\* C8: a runAutoSync attempt whose fetch times out reports success=false with
\* error="UpstreamTimeout", the RunningFlag is clear when it has returned and
\* the watermark is as it was before the attempt.
C8_UpstreamTimeout ==
    (ret.kind = "auto" /\ ret.event = "fetch timeout") =>
        /\ ~ret.result.success
        /\ ret.result.error = "UpstreamTimeout"
        /\ ~isRunning
        /\ lastSyncTime = LastRun.before

\* C9: a failed read of the existing keys ends the sync attempt at once with
\* success=false, so that nothing is appended in that call.
C9_ReadFailurePropagates ==
    ret.event = "read failed" =>
        /\ ret.kind \in {"auto", "manual"}
        /\ ~ret.result.success

\* the validity the claim states, read off a raw record and off a sheet row
RequiredPresent(v) == v # Undefined /\ v # ""
RecordIsValid(r) ==
    /\ RequiredPresent(r.uid) /\ RequiredPresent(r.sync_time)
    /\ RequiredPresent(r.logged_time) /\ RequiredPresent(r.type)
    /\ RequiredPresent(r.device_identifier)
    /\ RequiredPresent(r.person_identifier)
    /\ r.type \in {"card", "fingerprint", "face"}
RowIsValid(row) ==
    /\ \A k \in {1, 2, 3, 4, 5, 7} : RequiredPresent(row[k])
    /\ row[4] \in {"card", "fingerprint", "face"}
UidsOf(records) == [i \in 1..Len(records) |-> records[i].uid]

\* C10: in every sync a raw record that lacks a required field, or whose type
\* is not card, fingerprint or face, is never written to the store and never
\* counted in recordsAdded, and the valid records of its batch go on to the
\* append: every data row and every record handed to appendAttendanceData is
\* valid, a sync that returns straight from a fetch added nothing, every row
\* counted is a row written, and after a fetch with valid records the sync
\* holds exactly those, in order.
C10_ValidityFilter ==
    /\ \A i \in 2..Len(sheet) : RowIsValid(sheet[i])
    /\ \A c \in InFlight : \A i \in 1..Len(c.records) : RecordIsValid(c.records[i])
    /\ (ret.kind \in {"auto", "manual"} /\ ret.result.recordsAdded > 0) =>
          /\ ret.event = "append ok"
          /\ ret.result.recordsAdded <= Len(sheet) - 1
    /\ (ret.event = "fetch ok" /\ ret.kind # "query") =>
          LET valid == SelectSeq(ret.batch, RecordIsValid)
          IN  IF Len(valid) = 0
              THEN ret.kind \in {"auto", "manual"} /\ ret.result.recordsAdded = 0
              ELSE /\ ret.kind = "none"
                   /\ \E c \in InFlight :
                         c.pc = "read" /\ UidsOf(c.records) = UidsOf(valid)

\* C10 witness: a sync has fetched a batch holding valid and invalid records
\* and goes on to the append with the valid one.
C10_Witness ==
    /\ ret.event = "fetch ok" /\ ret.kind = "none"
    /\ \E i, j \in 1..Len(ret.batch) :
          RecordIsValid(ret.batch[i]) /\ ~RecordIsValid(ret.batch[j])
    /\ \E c \in InFlight : c.pc = "read" /\ Len(c.records) = 1

\* the uids of an array of records
UidSet(records) == {records[i].uid : i \in 1..Len(records)}

\* a call of appendAttendanceData during which no request failed
NoFailure(call) == call.readOk /\ ~call.threw

\* C11: append(R1) followed by append(R2), R2 holding every uid of R1, no
\* failure and nothing interleaved, leaves exactly one row per uid of R1 union
\* R2 in the store; append(R) followed by append(R) adds no row in the second
\* call, which reports 0 added (read as its callers do, recordsAdded || 0).
C11_IdempotentAppend ==
    (/\ Len(trail) = 2
     /\ NoFailure(trail[1]) /\ NoFailure(trail[2])
     /\ UidSet(trail[1].records) \subseteq UidSet(trail[2].records)) =>
        /\ \A i, j \in 2..Len(sheet) : i # j => sheet[i][1] # sheet[j][1]
        /\ {sheet[i][1] : i \in 2..Len(sheet)} =
               UidSet(trail[1].records) \cup UidSet(trail[2].records)
        /\ trail[1].records = trail[2].records =>
               /\ sheet = trail[2].before
               /\ trail[2].returned \in {-1, 0}

\* the records of an array whose uid is in no data row of the sheet
Unseen(records) ==
    SelectSeq(records,
              LAMBDA r : \A i \in 1..Len(UIDColumn) : UIDColumn[i] # r.uid)

\* C12: a sync attempt that completes successfully appends exactly the valid
\* fetched records whose uid is not already in the store, after the existing
\* rows and in the order received, and its recordsAdded is the number of rows
\* it appended: the read of the existing keys leaves the attempt with exactly
\* the unseen records (none: success with recordsAdded 0 and no row written),
\* and the append writes one row for each of them, in order, and counts them.
C12_AppendsExactlyNew ==
    [][/\ ret'.event \in {"read ok", "read failed"} =>
             \E c \in InFlight :
                /\ c.pc = "read"
                /\ sheet' = sheet
                /\ IF Len(Unseen(c.records)) = 0
                   THEN /\ ret'.kind = c.kind
                        /\ ret'.result.success
                        /\ ret'.result.recordsAdded = 0
                   ELSE \E d \in BagToSet(calls') :
                           d.pc = "append" /\ d.records = Unseen(c.records)
       /\ ret'.event = "append ok" =>
             \E c \in InFlight :
                /\ c.pc = "append"
                /\ Len(sheet') = Len(sheet) + Len(c.records)
                /\ SubSeq(sheet', 1, Len(sheet)) = sheet
                /\ \A i \in 1..Len(c.records) :
                      sheet'[Len(sheet) + i][1] = c.records[i].uid
                /\ ret'.result.success
                /\ ret'.result.recordsAdded = Len(c.records)]_vars

\* C13: a runAutoSync or runManualSync attempt whose fetch returns no record,
\* or only invalid records, ends with success=true and recordsAdded=0 and
\* writes no row.
C13_NothingToDo ==
    [][(/\ ret'.event = "fetch ok" /\ ret'.kind # "query"
        /\ Len(SelectSeq(ret'.batch, RecordIsValid)) = 0) =>
          /\ ret'.kind \in {"auto", "manual"}
          /\ ret'.result.success
          /\ ret'.result.recordsAdded = 0
          /\ sheet' = sheet]_vars

\* C13 witness: a manual sync has returned from a fetch whose records were all
\* invalid.
C13_Witness ==
    /\ ret.kind = "manual" /\ ret.event = "fetch ok"
    /\ Len(ret.batch) > 0
    /\ ret.result.success /\ ret.result.recordsAdded = 0

\* a request of an adapter failed and the failure was raised to performSync
AdapterFailure ==
    ret.event \in {"fetch timeout", "fetch failed", "append failed"}

\* C14: a failure raised by the source or the store adapter during runAutoSync
\* is caught: the invocation returns success=false, lastSyncResult is that
\* result, and a runAutoSync invoked after the failed attempt returned, with
\* no sync in flight, is not rejected by the guard.
C14_FailureCaught ==
    /\ [](AdapterFailure =>
             /\ ret.kind = "auto"
             /\ ~ret.result.success
             /\ lastSyncResult = ret.result
             /\ ~isRunning)
    /\ [][(/\ lastSyncResult # NoResult /\ ~lastSyncResult.success
           /\ calls = EmptyBag
           /\ Len(trail') > Len(trail)) =>
             trail'[Len(trail')].decision = "run"]_vars

\* C14 witness: the append of the first runAutoSync failed, and the second,
\* invoked after it returned, passed the guard and is fetching.
C14_Witness ==
    /\ Len(trail) = 2 /\ trail[2].decision = "run"
    /\ calls # EmptyBag
    /\ lastSyncResult = SyncFailed(StoreErrorMessage, "Error")

\* C15: every sync attempt that acquired the guard, auto or manual, leaves its
\* result in lastSyncResult when it returns.
C15_LastResultUpdated ==
    (ret.kind \in {"auto", "manual"} /\ ret.event # "none") =>
        lastSyncResult = ret.result

\* C16: runAutoSync invoked while the RunningFlag is set returns a "skipped"
\* result that is not a failure: its success is not false.
C16_SkipIsNotFailure ==
    (ret.kind = "auto" /\ ret.event = "none") =>
        /\ ret.result.message = "Sync already in progress"
        /\ ret.result.success # FALSE

\* C17: runManualSync invoked while the RunningFlag is set returns
\* success=false with the already-running message and the AlreadyRunning
\* classification.
C17_ManualRejected ==
    (ret.kind = "manual" /\ ret.event = "none") =>
        /\ ~ret.result.success
        /\ ret.result.message = "Another sync operation is already running"
        /\ ret.result.error = "AlreadyRunning"

\* the invocation resumed in this step
Returning(c) == c \in InFlight /\ CopiesIn(c, calls') < CopiesIn(c, calls)

\* a step of getStatus, of the read of lastSyncResult, of isCronJobRunning or
\* of testServices
ReadOnlyStep ==
    \/ ret'.kind \in {"getStatus", "getLastResult", "isCronJobRunning", "test"}
    \/ \E c \in BagToSet(calls) \cup BagToSet(calls') :
          c.kind = "test" /\ CopiesIn(c, calls) # CopiesIn(c, calls')

\* C21: the status and test operations are never turned away by the
\* RunningFlag (they can be invoked in every state of the running service and
\* what they return does not depend on a rejection), and none of their steps
\* changes the watermark, the RunningFlag, lastSyncResult or the store.
C21_ReadOnlyOperations ==
    /\ [](server = "listening" =>
             /\ ENABLED GetStatus /\ ENABLED GetLastResult /\ ENABLED CronStatus
             /\ BagCardinality(calls) < Cardinality(Slots) => ENABLED TestStart)
    /\ [][ReadOnlyStep =>
             /\ UNCHANGED <<sheet, lastSyncTime, isRunning, lastSyncResult>>
             /\ ret'.kind = "getStatus" =>
                   /\ ret'.result.syncInProgress = isRunning
                   /\ ret'.result.lastSyncResult = lastSyncResult
                   /\ ret'.result.lastSyncTime = lastSyncTime
             /\ ret'.kind = "getLastResult" =>
                   ret'.result.lastSyncResult = lastSyncResult
             /\ ret'.kind = "isCronJobRunning" =>
                   ret'.result = Value(cronJob # NoJob)
             /\ ret'.kind = "test" =>
                   \E c \in InFlight :
                      /\ c.kind = "test" /\ Returning(c)
                      /\ ret'.result.attendanceService = c.connected
                      /\ ret'.result.overallSuccess =
                            (c.connected /\ ret'.event = "info ok")]_vars

\* C21 witness: testServices has returned its results, both probes answered,
\* while a sync holds the RunningFlag.
C21_Witness ==
    /\ ret.kind = "test" /\ ret.result.overallSuccess
    /\ isRunning /\ SyncsInFlight > 0
    /\ lastSyncTime = NoTime

\* C22: a sync invocation rejected because the RunningFlag is set leaves the
\* flag set: isRunning (getStatus().syncInProgress) is true in every state in
\* which a sync attempt is executing.
C22_FlagHeldWhileRunning == SyncsInFlight > 0 => isRunning

\* the rows that follow row k of the sheet after call k of SpecAppend
SheetAfter(k) == IF k < Len(trail) THEN trail[k + 1].before ELSE sheet

\* the uids in the data rows of `rows`
StoredUids(rows) == {rows[i][1] : i \in 2..Len(rows)}

\* C26: appendAttendanceData called with an empty list, or with records whose
\* uids are all in the store already, sends no write call, leaves the store as
\* it was and returns 0 (undefined, which its callers read as 0, is accepted).
C26_NoWriteWhenNothingNew ==
    \A k \in 1..Len(trail) :
        UidSet(trail[k].records) \subseteq StoredUids(trail[k].before) =>
            /\ ~trail[k].wrote
            /\ trail[k].returned \in {-1, 0}
            /\ SheetAfter(k) = trail[k].before

\* C23: every request being answered in the end, every sync attempt that set
\* the RunningFlag completes and the flag is clear again.
C23_GuardReleased ==
    /\ isRunning ~> ~isRunning
    /\ (SyncsInFlight > 0) ~> (SyncsInFlight = 0)

\* C23 witness: a sync that held the flag has completed by appending, and the
\* service is idle with the flag clear.
C23_Witness ==
    /\ ret.kind \in {"auto", "manual"} /\ ret.event = "append ok"
    /\ calls = EmptyBag /\ ~isRunning

\* C24: the first runAutoSync (watermark unset) uses the window
\* [now - 24h, now), every later one [watermark, now); after an attempt that
\* succeeds the watermark is the `now` captured as that attempt's window end;
\* and a runAutoSync that follows a successful one starts its window where the
\* previous window ended.
C24_WindowSelection ==
    /\ [](\A i \in 1..Len(trail) :
             trail[i].decision = "run" =>
                trail[i].start = IF trail[i].before = NoTime
                                 THEN trail[i].end - LookBack
                                 ELSE trail[i].before)
    /\ [][/\ (ret'.kind = "auto" /\ ret'.event # "none" /\ ret'.result.success) =>
              \E c \in InFlight :
                 c.kind = "auto" /\ Returning(c) /\ lastSyncTime' = c.endTime
          /\ (/\ Len(trail') > Len(trail) /\ Len(trail) > 0
              /\ trail'[Len(trail')].decision = "run"
              /\ trail[Len(trail)].decision = "run"
              /\ calls = EmptyBag
              /\ lastSyncResult.success) =>
                 trail'[Len(trail')].start = trail[Len(trail)].end]_vars

\* the order of the requests of an attempt
Rank(pc) == CASE pc = "fetch" -> 1 [] pc = "read" -> 2 [] pc = "append" -> 3

C25_QueryCarriesWindow ==
    \A i \in 1..Len(trail) :
        trail[i].decision = "run" =>
            /\ trail[i].params.start = trail[i].start
            /\ trail[i].params.end = trail[i].end

\* the data rows of a sheet
DataRows(rows) == SubSeq(rows, 2, Len(rows))

\* C28: createHeaderRow writes the 13-column header into row 1 only when row 1
\* is empty: after any number of calls a non-empty row 1 is what it was, an
\* empty one holds the header once a call succeeded, the data rows are what
\* they were, and a further call changes nothing.
C28_HeaderIdempotent ==
    Len(trail) > 0 =>
        LET found == trail[1].before
            succeeded == \E k \in 1..Len(trail) : ~trail[k].threw
        IN  /\ DataRows(sheet) = DataRows(found)
            /\ (Len(found) > 0 /\ found[1] # <<>>) => sheet[1] = found[1]
            /\ ((Len(found) = 0 \/ found[1] = <<>>) /\ succeeded) =>
                   /\ sheet[1] = HeaderRow /\ Len(HeaderRow) = 13
                   /\ Len(sheet) = IF Len(found) = 0 THEN 1 ELSE Len(found)
            /\ ~succeeded => sheet = found
            /\ \A k \in 1..Len(trail) :
                  (\E j \in 1..(k - 1) : ~trail[j].threw) => trail[k].before = sheet

\* C28 witness: createHeaderRow has run three times on a sheet found with an
\* empty row 1 above two data rows, and the header is there above them.
C28_Witness ==
    /\ Len(trail) = 3 /\ \A k \in 1..3 : ~trail[k].threw
    /\ Len(trail[1].before) = 3 /\ trail[1].before[1] = <<>>
    /\ sheet[1] = HeaderRow /\ Len(sheet) = 3

\* a step of startCronJob or stopCronJob
SchedulerCall == ret'.kind \in {"startCronJob", "stopCronJob"}

\* C18: start on a started scheduler returns false and leaves the one timer in
\* place, stop on a stopped scheduler returns false and changes nothing, there
\* is never more than one started timer, and isCronJobRunning is true exactly
\* when the last call that returned true was a start.
C18_StartStopIdempotent ==
    [][/\ timers' <= 1
       /\ ~SchedulerCall /\ server = "listening" => cronJob' = cronJob
       /\ SchedulerCall =>
             /\ (ret'.kind = "startCronJob" /\ cronJob # NoJob) =>
                    /\ ret'.result = Value(FALSE)
                    /\ cronJob' = cronJob /\ timers' = timers /\ timers = 1
             /\ (ret'.kind = "stopCronJob" /\ cronJob = NoJob) =>
                    /\ ret'.result = Value(FALSE)
                    /\ cronJob' = cronJob /\ timers' = timers /\ timers = 0
             /\ (cronJob' # NoJob) =
                    IF ret'.result = Value(TRUE)
                    THEN ret'.kind = "startCronJob"
                    ELSE cronJob # NoJob]_vars

\* C18 witness: startCronJob has just returned false on a started scheduler,
\* whose one timer is still in place.
C18_Witness ==
    /\ ret.kind = "startCronJob" /\ ret.result = Value(FALSE)
    /\ cronJob # NoJob /\ timers = 1

\* the state of a service on which no performSync was ever invoked
NeverSynced ==
    /\ calls = EmptyBag /\ ~isRunning
    /\ lastSyncResult = NoResult /\ lastSyncTime = NoTime
    /\ ret.kind \notin {"auto", "manual", "query"}

\* the service was constructed with a SYNC_INTERVAL that is not a cron expression
InvalidCadence == syncInterval = "every five minutes"

\* C19: startCronJob with an invalid cron expression fails with the
\* invalid-expression error and never begins running: no task is created or
\* started, isCronJobRunning stays false and no scheduled performSync fires.
C19_InvalidSchedule ==
    InvalidCadence =>
        /\ cronJob = NoJob /\ timers = 0
        /\ NeverSynced
        /\ ret.kind = "startCronJob" =>
              ret.event = "throw" /\ ret.result = Thrown(InvalidCronMessage)

\* C19 witness: startCronJob has just thrown on an invalid expression.
C19_Witness ==
    /\ InvalidCadence
    /\ server = "listening"
    /\ ret.kind = "startCronJob" /\ ret.event = "throw"
    /\ cronJob = NoJob

\* C20: no operation of the service raises to its caller: initialize never
\* throws (startServer never exits on it) and no operation ends by throwing.
C20_NeverRaises ==
    /\ server # "exited"
    /\ ret.event # "throw"

====
